---- MODULE Spec2Model ----
(***************************************************************************)
(* bricknil/bricknil.py: the attach class-decorator and the orchestrator   *)
(* entry points initialize(), finalize(), run() and start().               *)
(*                                                                         *)
(* Hub, Peripheral and BLEventQ live in bricknil.hub, bricknil.sensor and  *)
(* bricknil.ble_queue, outside the two source files; their methods are     *)
(* modelled from the specification (sections 3 and 4).                     *)
(***************************************************************************)
EXTENDS Integers, Sequences, FiniteSets, TLC

\* ------------------------------------------------------------------ bounds
MaxHubs == 2     \* hubs instantiated in one process
MaxStack == 2    \* attach decorators stacked on one hub class
MaxCalls == 3    \* orchestrator entry-point calls made by user code
MaxCommands == 2 \* commands enqueued on the command channel

\* ------------------------------------------------------------- attachments
None == "None"

\* Peripheral types of the examples plus a sensing one (spec 8, SensorX).
\* Capabilities of a peripheral type: tags, the sensing ones start with "sense".
Capabilities(ptype) ==
    IF ptype = "SensorX" THEN {[kind |-> "sense", what |-> "temp"]}
    ELSE {[kind |-> "action", what |-> "speed"]}

\* The argument lists of attach(...) that user code writes:
\* attach(CPlusXLMotor, name='front_drive', port=0) and so on; None marks an
\* argument that was left out.
AttachArgs ==
    { [ptype |-> "CPlusXLMotor", name |-> "front_drive", port |-> 0],
      [ptype |-> "CPlusXLMotor", name |-> "rear_drive",  port |-> 1],
      [ptype |-> "SensorX",      name |-> "temp",        port |-> 0],
      [ptype |-> "CPlusXLMotor", name |-> None,          port |-> 1],
      [ptype |-> None,           name |-> "front_drive", port |-> 0] }

Ports == {a.port : a \in AttachArgs}

\* Callback methods a hub class may define (temp_change).
Callbacks == {"temp"}

\* Decorator stacks in source order: element 1 is the topmost (outermost) line.
Stacks == UNION {[1..n -> AttachArgs] : n \in 0..MaxStack}

NoClass == [defined |-> FALSE, callbacks |-> {}, stack |-> <<>>]

\* A variant of attach.__init__ that carries out the TODO of line 64 and
\* rejects a missing name when the attach line is evaluated.
attach_init_checked(a) ==
    IF a.ptype = None THEN [raised |-> "TypeError", attach |-> None]
    ELSE IF a.name = None THEN [raised |-> "ConfigurationError", attach |-> None]
    ELSE [raised |-> None,
          attach |-> [peripheral_type |-> a.ptype,
                      kwargs |-> [name |-> a.name, port |-> a.port]]]

\* attach.__init__: stores the peripheral type and the keyword arguments as
\* given. Python itself raises TypeError when the positional peripheral_type
\* is left out; nothing else is checked (the TODO of line 64).
attach_init(a) ==
    IF a.ptype = None THEN [raised |-> "TypeError", attach |-> None]
    ELSE [raised |-> None,
          attach |-> [peripheral_type |-> a.ptype,
                      kwargs |-> [name |-> a.name, port |-> a.port]]]

\* A class statement with its decorator lines: the attach(...) expressions are
\* evaluated top to bottom, then applied bottom-up through attach.__call__,
\* which only builds wrapper_f around the class below it. The decorated class
\* is kept as the class body's callbacks plus the attach objects, outermost
\* wrapper first.
class_statement(stack, callbacks) ==
    LET inits == [k \in 1..Len(stack) |-> attach_init(stack[k])]
    IN  IF \E k \in 1..Len(stack) : inits[k].raised # None
        THEN [raised |-> inits[CHOOSE k \in 1..Len(stack) :
                                    /\ inits[k].raised # None
                                    /\ \A j \in 1..(k - 1) : inits[j].raised = None].raised,
              cls |-> NoClass]
        ELSE [raised |-> None,
              cls |-> [defined |-> TRUE, callbacks |-> callbacks,
                       stack |-> [k \in 1..Len(stack) |-> inits[k].attach]]]

\* ---------------------------------------------------------------- hub object
NoPeripheral == [name |-> None, port |-> 0, capabilities |-> {}]

NoHub == [state |-> "None", open |-> FALSE, connected |-> FALSE,
          peripherals |-> <<>>,
          port_to_peripheral |-> [p \in Ports |-> None],
          callbacks |-> {}, name |-> None, query_port_info |-> FALSE]

\* The arguments user code passes when it calls a hub class: the hub's name
\* and the query_port_info flag.
HubNames == {"4x4 X-treme Off Roader", "second hub"}
CallArgs == [name : HubNames, query_port_info : BOOLEAN]

\* Hub.__init__(name, query_port_info): a fresh hub in state Created with
\* no peripherals; the caller appends it to Hub.hubs.
Hub_init(callbacks, args) ==
    [state |-> "Created", open |-> FALSE, connected |-> FALSE,
     peripherals |-> <<>>,
     port_to_peripheral |-> [p \in Ports |-> None],
     callbacks |-> callbacks, name |-> args.name,
     query_port_info |-> args.query_port_info]

\* peripheral_type(**kwargs): a missing name is a ConfigurationError.
Peripheral_init(at) ==
    IF at.kwargs.name = None
    THEN [raised |-> "ConfigurationError", peripheral |-> NoPeripheral]
    ELSE [raised |-> None,
          peripheral |-> [name |-> at.kwargs.name, port |-> at.kwargs.port,
                          capabilities |-> Capabilities(at.peripheral_type)]]

\* The sensing capabilities of p that have no callback on the hub.
MissingCallbacks(o, p) ==
    {c \in p.capabilities : c.kind = "sense" /\ c.what \notin o.callbacks}

\* Hub.attach_sensor: checks the sensing callbacks, then registers the
\* peripheral under its port; the port itself is not validated.
attach_sensor(o, p) ==
    IF MissingCallbacks(o, p) # {}
    THEN [raised |-> "ConfigurationError", o |-> o]
    ELSE [raised |-> None,
          o |-> [o EXCEPT !.peripherals = Append(@, p.name),
                          !.port_to_peripheral[p.port] = p.name]]

\* ------------------------------------------------- variants of wrapper_f
\* A wrapper_f that catches what attach_sensor raises and returns the hub.
RECURSIVE wrapper_f_swallow(_, _, _)
wrapper_f_swallow(c, k, args) ==
    IF k > Len(c.stack)
    THEN [raised |-> None, o |-> Hub_init(c.callbacks, args), registered |-> TRUE,
          events |-> <<[call |-> "Hub", k |-> 0, args |-> args]>>]
    ELSE LET p == Peripheral_init(c.stack[k])
         IN  IF p.raised # None
             THEN [raised |-> p.raised, o |-> NoHub, registered |-> FALSE,
                   events |-> <<>>]
             ELSE LET pe == <<[call |-> "peripheral", k |-> k, args |-> c.stack[k].kwargs]>>
                      r == wrapper_f_swallow(c, k + 1, args)
                  IN  IF r.raised # None
                      THEN [r EXCEPT !.events = pe \o @]
                      ELSE LET s == attach_sensor(r.o, p.peripheral)
                           IN  [raised |-> None, o |-> s.o,
                                registered |-> TRUE,
                                events |-> pe \o r.events \o
                                    (IF s.raised # None THEN <<>>
                                     ELSE <<[call |-> "attach_sensor", k |-> k, args |-> p.peripheral.name]>>)]

\* A wrapper_f that returns the hub without calling attach_sensor.
RECURSIVE wrapper_f_noattach(_, _, _)
wrapper_f_noattach(c, k, args) ==
    IF k > Len(c.stack)
    THEN [raised |-> None, o |-> Hub_init(c.callbacks, args), registered |-> TRUE,
          events |-> <<[call |-> "Hub", k |-> 0, args |-> args]>>]
    ELSE LET p == Peripheral_init(c.stack[k])
         IN  IF p.raised # None
             THEN [raised |-> p.raised, o |-> NoHub, registered |-> FALSE,
                   events |-> <<>>]
             ELSE LET pe == <<[call |-> "peripheral", k |-> k, args |-> c.stack[k].kwargs]>>
                      r == wrapper_f_noattach(c, k + 1, args)
                  IN  [r EXCEPT !.events = pe \o @]

\* A wrapper_f whose nesting is inverted: the attach line nearest the class
\* ends up as the outermost wrapper (src(k) is the line of the k-th wrapper).
RECURSIVE wrapper_f_inverted(_, _, _)
wrapper_f_inverted(c, k, args) ==
    IF k > Len(c.stack)
    THEN [raised |-> None, o |-> Hub_init(c.callbacks, args), registered |-> TRUE,
          events |-> <<[call |-> "Hub", k |-> 0, args |-> args]>>]
    ELSE LET src == Len(c.stack) + 1 - k
             p == Peripheral_init(c.stack[src])
         IN  IF p.raised # None
             THEN [raised |-> p.raised, o |-> NoHub, registered |-> FALSE,
                   events |-> <<>>]
             ELSE LET pe == <<[call |-> "peripheral", k |-> src, args |-> c.stack[src].kwargs]>>
                      r == wrapper_f_inverted(c, k + 1, args)
                  IN  IF r.raised # None
                      THEN [r EXCEPT !.events = pe \o @]
                      ELSE LET s == attach_sensor(r.o, p.peripheral)
                           IN  [raised |-> s.raised, o |-> s.o,
                                registered |-> TRUE,
                                events |-> pe \o r.events \o
                                    (IF s.raised # None THEN <<>>
                                     ELSE <<[call |-> "attach_sensor", k |-> src, args |-> p.peripheral.name]>>)]

\* A wrapper_f that calls the class below it first and instantiates its
\* peripheral afterwards.
RECURSIVE wrapper_f_hub_first(_, _, _)
wrapper_f_hub_first(c, k, args) ==
    IF k > Len(c.stack)
    THEN [raised |-> None, o |-> Hub_init(c.callbacks, args), registered |-> TRUE,
          events |-> <<[call |-> "Hub", k |-> 0, args |-> args]>>]
    ELSE LET r == wrapper_f_hub_first(c, k + 1, args)
         IN  IF r.raised # None THEN r
             ELSE LET p == Peripheral_init(c.stack[k])
                  IN  IF p.raised # None
                      THEN [r EXCEPT !.raised = p.raised]
                      ELSE LET pe == <<[call |-> "peripheral", k |-> k, args |-> c.stack[k].kwargs]>>
                               s == attach_sensor(r.o, p.peripheral)
                           IN  [raised |-> s.raised, o |-> s.o,
                                registered |-> TRUE,
                                events |-> r.events \o pe \o
                                    (IF s.raised # None THEN <<>>
                                     ELSE <<[call |-> "attach_sensor", k |-> k, args |-> p.peripheral.name]>>)]

\* ------------------------------------------------------------- wrapper_f
\* wrapper_f of the k-th attach object of class c (k = Len + 1 is the
\* undecorated class, whose call is Hub.__init__), called with the caller's
\* arguments args, which every wrapper hands on as cls(*args, **kwargs).
\* The result carries the hub
\* object as built so far, whether Hub.__init__ ran (the hub is then in the
\* registry), the exception if one was raised, and the calls made, in order.
RECURSIVE wrapper_f(_, _, _)
wrapper_f(c, k, args) ==
    IF k > Len(c.stack)
    THEN [raised |-> None, o |-> Hub_init(c.callbacks, args), registered |-> TRUE,
          events |-> <<[call |-> "Hub", k |-> 0, args |-> args]>>]
    ELSE LET p == Peripheral_init(c.stack[k])
         IN  IF p.raised # None
             THEN [raised |-> p.raised, o |-> NoHub, registered |-> FALSE,
                   events |-> <<>>]
             ELSE LET pe == <<[call |-> "peripheral", k |-> k, args |-> c.stack[k].kwargs]>>
                      r == wrapper_f(c, k + 1, args)
                  IN  IF r.raised # None
                      THEN [r EXCEPT !.events = pe \o @]
                      ELSE LET s == attach_sensor(r.o, p.peripheral)
                           IN  [raised |-> s.raised, o |-> s.o,
                                registered |-> TRUE,
                                events |-> pe \o r.events \o
                                    (IF s.raised # None THEN <<>>
                                     ELSE <<[call |-> "attach_sensor", k |-> k, args |-> p.peripheral.name]>>)]


\* --------------------------------------------------------------- state
VARIABLES
    cls,       \* the decorated hub class most recently defined
    declared,  \* the most recent class statement: its @attach lines, how it ended
    built,     \* how the most recent call of cls(...) ended
    hubs,      \* Hub.hubs, the registry: hub ids in construction order
    hub,       \* the hub objects, by id
    pc,        \* the awaited call the orchestrator is suspended in
    idx,       \* position of the for loop over Hub.hubs
    entry,     \* the entry point called last: initialize, finalize, run, start
    exit,      \* how that call ended: pending, returned or the exception
    log,       \* the calls that entry point made, in order
    calls,     \* number of entry-point calls so far
    entries,   \* every command enqueued so far: its hub and its pending handle
    queue,     \* the command channel's queue: entry ids, oldest first
    inflight,  \* entries written to the transport and awaiting their response
    writes     \* the transport writes issued so far: entry ids, in order

vars == <<cls, declared, built, hubs, hub, pc, idx, entry, exit, log, calls,
          entries, queue, inflight, writes>>

chanVars == <<entries, queue, inflight, writes>>

attachVars == <<cls, declared, built>>
orchVars == <<pc, idx, entry, exit, log, calls>>

HubIds == 1..MaxHubs

NotBuilt == [result |-> "none", id |-> 0, registered |-> FALSE, events |-> <<>>,
             args |-> [name |-> None, query_port_info |-> FALSE]]

Init ==
    /\ cls = NoClass
    /\ declared = [stack |-> <<>>, result |-> "none"]
    /\ built = NotBuilt
    /\ hubs = <<>>
    /\ hub = [h \in HubIds |-> NoHub]
    /\ pc = "idle"
    /\ idx = 0
    /\ entry = "none"
    /\ exit = "none"
    /\ log = <<>>
    /\ calls = 0
    /\ entries = <<>>
    /\ queue = <<>>
    /\ inflight = {}
    /\ writes = <<>>

\* ------------------------------------------------------- attach phase
\* User code runs a class statement with a stack of @attach lines.
DeclareClass(stack, callbacks) ==
    /\ pc = "idle"
    /\ LET r == class_statement(stack, callbacks)
       IN  /\ declared' = [stack |-> stack,
                          result |-> (IF r.raised # None THEN r.raised ELSE "defined")]
           /\ cls' = (IF r.raised # None THEN cls ELSE r.cls)
    /\ built' = NotBuilt
    /\ UNCHANGED <<hubs, hub>>
    /\ UNCHANGED orchVars
    /\ UNCHANGED chanVars

\* User code calls the decorated class: vehicle = XtremeOffRoader(...).
\* Hub.__init__ appends the new hub to Hub.hubs whether or not a wrapper
\* above it raises afterwards. The call has no await in it; it may come from
\* another task while the orchestrator is suspended in an awaited call, and
\* the for loops over Hub.hubs then see the new entry.
Construct(args) ==
    /\ cls.defined
    /\ Len(hubs) < MaxHubs
    /\ LET r == wrapper_f(cls, 1, args)
           id == Len(hubs) + 1
       IN  /\ built' = [result |-> (IF r.raised # None THEN r.raised ELSE "returned"),
                        id |-> (IF r.registered THEN id ELSE 0),
                        registered |-> r.registered,
                        events |-> r.events,
                        args |-> args]
           /\ hubs' = (IF r.registered THEN Append(hubs, id) ELSE hubs)
           /\ hub' = (IF r.registered THEN [hub EXCEPT ![id] = r.o] ELSE hub)
    /\ UNCHANGED <<cls, declared>>
    /\ UNCHANGED orchVars
    /\ UNCHANGED chanVars


\* ------------------------------------------------------- hub lifecycle
\* The hub's own coroutines (spec 4.3). Calling one moves the hub into the
\* state the call passes through; its completion moves it on, or raises and
\* leaves the hub where the call had put it.
Hub_call(o, op) ==
    CASE op = "connect"    -> [o EXCEPT !.state = "Connecting"]
      [] op = "initialize" -> o
      [] op = "finalize"   -> [o EXCEPT !.state = "Finalizing"]
      [] op = "disconnect" -> [o EXCEPT !.state = "Disconnecting"]

Hub_done(o, op, ok) ==
    IF ~ok THEN o
    ELSE CASE op = "connect"    -> [o EXCEPT !.state = "Connected", !.open = TRUE,
                                              !.connected = TRUE]
           [] op = "initialize" -> [o EXCEPT !.state = "Ready"]
           [] op = "finalize"   -> o
           [] op = "disconnect" -> [o EXCEPT !.state = "Disconnected", !.open = FALSE]

\* The exception a failing hub coroutine raises.
Hub_error(op) == IF op = "connect" THEN "ConnectionError" ELSE "HubError"

\* BLEventQ.disconnect_all: closes every connection the transport holds open.
disconnect_all(hs) == [h \in DOMAIN hs |-> [hs[h] EXCEPT !.open = FALSE]]

\* ------------------------------------------------------ command channel
\* BLEventQ as the specification's CommandChannel (spec 4.2, 5).
\* disconnect_all also cancels every pending handle with Disconnected; the
\* queue is emptied and nothing stays in flight.
cancel_pending(es) ==
    [i \in DOMAIN es |->
        IF es[i].handle = "pending" THEN [es[i] EXCEPT !.handle = "Disconnected"]
        ELSE es[i]]

\* A consumer that takes the newest entry of the queue.
dequeue_newest(q) == [id |-> q[Len(q)], rest |-> SubSeq(q, 1, Len(q) - 1)]

\* A consumer that writes the oldest entry and leaves it in the queue.
dequeue_keep(q) == [id |-> Head(q), rest |-> q]

\* The entry the consumer takes from the queue: the oldest one.
dequeue(q) == [id |-> Head(q), rest |-> Tail(q)]

\* A consumer that moves on after a timeout without resolving the handle.
resolve_unless_timeout(es, id, how) ==
    IF how = "TransportTimeout" THEN es ELSE [es EXCEPT ![id].handle = how]

\* How the consumer ends its wait for entry id: with the matching response
\* (ok) or, when the bounded wait elapses, with TransportTimeout.
resolve(es, id, how) == [es EXCEPT ![id].handle = how]

\* ------------------------------------------- variants of initialize()
\* An initialize() that catches a hub's failure and goes on with the next hub.
initialize_next_swallow(at, i, ok, n) ==
    CASE at = "enter" ->
            IF n = 0 THEN [pc |-> "return", i |-> 0]
            ELSE [pc |-> "connect", i |-> 1]
      [] at = "connect" /\ ok -> [pc |-> "initialize", i |-> i]
      [] OTHER ->
            IF i < n THEN [pc |-> "connect", i |-> i + 1]
            ELSE [pc |-> "return", i |-> i]

\* An initialize() with two loops: it connects every hub, then initializes
\* every hub.
initialize_next_two_loops(at, i, ok, n) ==
    IF ~ok THEN [pc |-> "raise", i |-> i]
    ELSE CASE at = "enter" ->
                IF n = 0 THEN [pc |-> "return", i |-> 0]
                ELSE [pc |-> "connect", i |-> 1]
           [] at = "connect" ->
                IF i < n THEN [pc |-> "connect", i |-> i + 1]
                ELSE [pc |-> "initialize", i |-> 1]
           [] at = "initialize" ->
                IF i < n THEN [pc |-> "initialize", i |-> i + 1]
                ELSE [pc |-> "return", i |-> i]

\* A finalize() with two loops: it finalizes every hub, then disconnects
\* every hub.
finalize_next_two_loops(at, i, ok, n) ==
    IF ~ok THEN [pc |-> "raise", i |-> i]
    ELSE CASE at = "enter" ->
                IF n = 0 THEN [pc |-> "disconnect_all", i |-> 0]
                ELSE [pc |-> "finalize", i |-> 1]
           [] at = "finalize" ->
                IF i < n THEN [pc |-> "finalize", i |-> i + 1]
                ELSE [pc |-> "disconnect", i |-> 1]
           [] at = "disconnect" ->
                IF i < n THEN [pc |-> "disconnect", i |-> i + 1]
                ELSE [pc |-> "disconnect_all", i |-> i]
           [] at = "disconnect_all" -> [pc |-> "return", i |-> i]

\* ------------------------------------------------------- orchestrator
\* Where initialize() goes from the point `at` (its entry, or the awaited
\* call that just ended) at loop position i over a registry of n hubs.
initialize_next(at, i, ok, n) ==
    IF ~ok THEN [pc |-> "raise", i |-> i]
    ELSE CASE at = "enter" ->
                IF n = 0 THEN [pc |-> "return", i |-> 0]
                ELSE [pc |-> "connect", i |-> 1]
           [] at = "connect" -> [pc |-> "initialize", i |-> i]
           [] at = "initialize" ->
                IF i < n THEN [pc |-> "connect", i |-> i + 1]
                ELSE [pc |-> "return", i |-> i]

\* Where finalize() goes: the loop over the hubs, then the port-info loop
\* (no await in it), then disconnect_all().
finalize_next(at, i, ok, n) ==
    IF ~ok THEN [pc |-> "raise", i |-> i]
    ELSE CASE at = "enter" ->
                IF n = 0 THEN [pc |-> "disconnect_all", i |-> 0]
                ELSE [pc |-> "finalize", i |-> 1]
           [] at = "finalize" -> [pc |-> "disconnect", i |-> i]
           [] at = "disconnect" ->
                IF i < n THEN [pc |-> "finalize", i |-> i + 1]
                ELSE [pc |-> "disconnect_all", i |-> i]
           [] at = "disconnect_all" -> [pc |-> "return", i |-> i]

HubOps == {"connect", "initialize", "finalize", "disconnect"}

Ev(op, h, ev) == [op |-> op, hub |-> h, ev |-> ev]

\* The port-info loop of finalize(): one message_info per hub of the registry
\* whose query_port_info flag is set, in registry order.
port_info(hs) ==
    LET asked == SelectSeq(hubs, LAMBDA h : hs[h].query_port_info)
    IN  [i \in 1..Len(asked) |-> Ev("port_info", asked[i], "emit")]

\* The orchestrator moves to nx: it returns, raises err, or issues the next
\* awaited call and suspends in it. hs and lg are the hubs and the log as the
\* step that ended left them.
Goto(nx, hs, lg, err) ==
    /\ idx' = nx.i
    /\ IF nx.pc = "return" THEN
            /\ pc' = "idle" /\ exit' = "returned" /\ hub' = hs /\ log' = lg
       ELSE IF nx.pc = "raise" THEN
            /\ pc' = "idle" /\ exit' = err /\ hub' = hs /\ log' = lg
       ELSE IF nx.pc = "disconnect_all" THEN
            /\ pc' = nx.pc /\ exit' = "pending" /\ hub' = hs
            /\ log' = Append(lg \o port_info(hs), Ev("disconnect_all", 0, "call"))
       ELSE /\ pc' = nx.pc /\ exit' = "pending"
            /\ hub' = [hs EXCEPT ![hubs[nx.i]] = Hub_call(@, nx.pc)]
            /\ log' = Append(lg, Ev(nx.pc, hubs[nx.i], "call"))

\* await initialize()
call_initialize ==
    /\ pc = "idle" /\ calls < MaxCalls
    /\ calls' = calls + 1
    /\ entry' = "initialize"
    /\ Goto(initialize_next("enter", 0, TRUE, Len(hubs)), hub,
            <<Ev("initialize()", 0, "call")>>, None)
    /\ UNCHANGED <<hubs>>
    /\ UNCHANGED attachVars
    /\ UNCHANGED chanVars

\* await finalize()
call_finalize ==
    /\ pc = "idle" /\ calls < MaxCalls
    /\ calls' = calls + 1
    /\ entry' = "finalize"
    /\ Goto(finalize_next("enter", 0, TRUE, Len(hubs)), hub,
            <<Ev("finalize()", 0, "call")>>, None)
    /\ UNCHANGED <<hubs>>
    /\ UNCHANGED attachVars
    /\ UNCHANGED chanVars

\* A finalize() that takes the last hub out of Hub.hubs once it has
\* disconnected it.
hub_call_done_unregister(ok) ==
    /\ pc \in HubOps
    /\ LET h == hubs[idx]
           hs == [hub EXCEPT ![h] = Hub_done(@, pc, ok)]
           lg == Append(log, Ev(pc, h, IF ok THEN "ok" ELSE "raise"))
           nx == IF entry = "initialize"
                 THEN initialize_next(pc, idx, ok, Len(hubs))
                 ELSE finalize_next(pc, idx, ok, Len(hubs))
       IN  /\ Goto(nx, hs, lg, Hub_error(pc))
           /\ hubs' = (IF pc = "disconnect" /\ ok /\ idx = Len(hubs)
                       THEN SubSeq(hubs, 1, Len(hubs) - 1) ELSE hubs)
    /\ UNCHANGED <<entry, calls>>
    /\ UNCHANGED attachVars
    /\ UNCHANGED chanVars

\* The awaited hub coroutine ends, normally or with its exception, and the
\* entry point that awaited it goes on.
hub_call_done(ok) ==
    /\ pc \in HubOps
    /\ LET h == hubs[idx]
           hs == [hub EXCEPT ![h] = Hub_done(@, pc, ok)]
           lg == Append(log, Ev(pc, h, IF ok THEN "ok" ELSE "raise"))
           nx == IF entry = "initialize"
                 THEN initialize_next(pc, idx, ok, Len(hubs))
                 ELSE finalize_next(pc, idx, ok, Len(hubs))
       IN  Goto(nx, hs, lg, Hub_error(pc))
    /\ UNCHANGED <<hubs, entry, calls>>
    /\ UNCHANGED attachVars
    /\ UNCHANGED chanVars

\* The awaited BLEventQ.instance.disconnect_all() ends.
disconnect_all_done ==
    /\ pc = "disconnect_all"
    /\ Goto(finalize_next(pc, idx, TRUE, Len(hubs)), disconnect_all(hub),
            Append(log, Ev("disconnect_all", 0, "ok")), None)
    /\ entries' = cancel_pending(entries)
    /\ queue' = <<>>
    /\ inflight' = {}
    /\ UNCHANGED <<hubs, entry, calls, writes>>
    /\ UNCHANGED attachVars

\* A peripheral action of hub h, called by the user program while the hub is
\* Ready: enqueue(message) admits the command and hands back its pending
\* handle without waiting for the write.
enqueue(h) ==
    /\ Len(entries) < MaxCommands
    /\ hub[h].state = "Ready"
    /\ entries' = Append(entries, [hub |-> h, handle |-> "pending"])
    /\ queue' = Append(queue, Len(entries) + 1)
    /\ UNCHANGED <<inflight, writes, hubs, hub>>
    /\ UNCHANGED attachVars
    /\ UNCHANGED orchVars

\* The channel's single consumer: with no write in flight it takes the next
\* entry from the queue and writes it to the transport.
consumer_write ==
    /\ queue # <<>>
    /\ inflight = {}
    /\ LET d == dequeue(queue)
       IN  /\ queue' = d.rest
           /\ inflight' = inflight \cup {d.id}
           /\ writes' = Append(writes, d.id)
    /\ UNCHANGED <<entries, hubs, hub>>
    /\ UNCHANGED attachVars
    /\ UNCHANGED orchVars

\* The consumer's wait for the entry in flight ends: the matching response
\* arrives, or the bounded wait elapses.
consumer_done(id, how) ==
    /\ id \in inflight
    /\ entries' = resolve(entries, id, how)
    /\ inflight' = inflight \ {id}
    /\ UNCHANGED <<queue, writes, hubs, hub>>
    /\ UNCHANGED attachVars
    /\ UNCHANGED orchVars

response == \E id \in inflight : consumer_done(id, "ok")
timeout == \E id \in inflight : consumer_done(id, "TransportTimeout")

\* run(program): main is defined without parameters (line 141) and called as
\* main(program) (line 148); the call raises TypeError before a coroutine
\* exists, so nothing of main's body runs.
MainParams == 0
MainArgs == 1
call_main(nparams, nargs) == IF nargs # nparams THEN "TypeError" ELSE None

call_run ==
    /\ pc = "idle" /\ calls < MaxCalls
    /\ call_main(MainParams, MainArgs) # None
    /\ calls' = calls + 1
    /\ entry' = "run"
    /\ exit' = call_main(MainParams, MainArgs)
    /\ log' = <<Ev("run()", 0, "call")>>
    /\ UNCHANGED <<hubs, hub, pc, idx>>
    /\ UNCHANGED attachVars
    /\ UNCHANGED chanVars

\* start(setup): warns, defines main, then evaluates main(program) (line
\* 181); no name `program` is bound in start or in the module: NameError.
StartNames == {"setup", "warnings", "main", "loop"}
ModuleNames == {"logging", "pprint", "run", "sleep", "get_event_loop", "spawn",
                "partial", "wraps", "uuid", "Process", "BLEventQ",
                "PoweredUpHub", "BoostHub", "Hub", "attach", "initialize",
                "finalize", "start"}
lookup(name) ==
    IF name \in StartNames \cup ModuleNames THEN None ELSE "NameError"

call_start ==
    /\ pc = "idle" /\ calls < MaxCalls
    /\ lookup("program") # None
    /\ calls' = calls + 1
    /\ entry' = "start"
    /\ exit' = lookup("program")
    /\ log' = <<Ev("start()", 0, "call")>>
    /\ UNCHANGED <<hubs, hub, pc, idx>>
    /\ UNCHANGED attachVars
    /\ UNCHANGED chanVars

\* The stacks of the orchestrator runs: a bare hub class and the example's
\* XtremeOffRoader (front_drive on port 0 above rear_drive on port 1).
ExampleStacks ==
    { <<>>,
      << [ptype |-> "CPlusXLMotor", name |-> "front_drive", port |-> 0],
         [ptype |-> "CPlusXLMotor", name |-> "rear_drive",  port |-> 1] >> }

\* The example's call, XtremeOffRoader("4x4 X-treme Off Roader"), with the
\* query_port_info flag left off or set.
ExampleCallArgs == {a \in CallArgs : a.name = "4x4 X-treme Off Roader"}

Next ==
    \/ \E s \in ExampleStacks : DeclareClass(s, {})
    \/ \E a \in ExampleCallArgs : Construct(a)
    \/ call_initialize
    \/ call_finalize
    \/ \E ok \in BOOLEAN : hub_call_done(ok)
    \/ disconnect_all_done
    \/ call_run
    \/ call_start

Spec == Init /\ [][Next]_vars

\* The attach phase over every stack of attach lines: a script with one
\* class statement, whose class is instantiated up to MaxHubs times, and one
\* call of initialize() at any point of it.
AttachNext ==
    \/ \E s \in Stacks, cb \in SUBSET Callbacks :
            ~cls.defined /\ DeclareClass(s, cb)
    \/ \E a \in CallArgs : Construct(a)
    \/ calls = 0 /\ call_initialize
    \/ \E ok \in BOOLEAN : hub_call_done(ok)

AttachSpec == Init /\ [][AttachNext]_vars

\* The command channel under one program: a bare hub class instantiated up
\* to MaxHubs times, initialize(), the user program's peripheral actions,
\* then finalize(), with the channel's consumer running throughout.
ChannelCallArgs == {a \in ExampleCallArgs : ~a.query_port_info}

ChannelNext ==
    \/ ~cls.defined /\ DeclareClass(<<>>, {})
    \/ \E a \in ChannelCallArgs : Construct(a)
    \/ calls = 0 /\ call_initialize
    \/ calls = 1 /\ call_finalize
    \/ \E ok \in BOOLEAN : hub_call_done(ok)
    \/ disconnect_all_done
    \/ \E h \in HubIds : enqueue(h)
    \/ consumer_write
    \/ response
    \/ timeout

ChannelSpec == Init /\ [][ChannelNext]_vars

\* The consumer is a perpetual task of the event loop: it takes a queued
\* entry whenever it is idle, and its wait for a response is bounded.
ChannelFairSpec ==
    ChannelSpec /\ WF_vars(consumer_write) /\ WF_vars(timeout)


\* ------------------------------------------------------------ properties
\* Positions of the log holding the event (op, h, ev).
At(op, h, ev) == {i \in DOMAIN log : log[i] = Ev(op, h, ev)}

\* Position of hub h in the registry.
Pos(h) == CHOOSE i \in DOMAIN hubs : hubs[i] = h

\* The entry point called last has ended (returned or raised).
Exited(e) == entry = e /\ pc = "idle" /\ exit \notin {"none", "pending"}

AllClosed == \A h \in HubIds : ~hub[h].open

\* C1: whenever run(program) has exited, returning or raising, it has
\* invoked finalize() exactly once.
C1_RunFinalizesOnce ==
    Exited("run") => Cardinality(At("finalize()", 0, "call")) = 1

\* C2: whenever run(program) has exited, disconnect_all() has been executed
\* in it and no hub connection is open.
C2_RunDisconnectsAll ==
    Exited("run") => At("disconnect_all", 0, "ok") # {} /\ AllClosed

\* C3: once a hub's connect() or initialize() has raised inside initialize(),
\* that is the last thing the call does: it ends with that exception, and no
\* hub at a later registry position is connected or initialized by the call.
C3_InitializeAbortsAtFirstFailure ==
    entry = "initialize" =>
        \A i \in DOMAIN log : log[i].ev = "raise" =>
            /\ i = Len(log)
            /\ pc = "idle"
            /\ exit = Hub_error(log[i].op)
            /\ \A j \in DOMAIN log :
                   log[j].hub # 0 => Pos(log[j].hub) <= Pos(log[i].hub)

\* C3 witness: the first of two registered hubs failed to connect, and
\* initialize() ended with ConnectionError leaving the second untouched.
C3_Witness ==
    /\ Exited("initialize") /\ exit = "ConnectionError"
    /\ Len(hubs) = 2
    /\ At("connect", hubs[1], "raise") # {}
    /\ hub[hubs[2]].state = "Created"

\* C4: inside initialize() the hubs are taken in registry order and one at
\* a time: before hub j's connect() is called, every earlier hub's connect()
\* and then its initialize() have completed; a hub's initialize() is called
\* only after its own connect() has succeeded; and no call is issued while
\* another is still awaited.
C4_InitializeSequential ==
    entry = "initialize" =>
        /\ \A i, j \in DOMAIN hubs : i < j =>
               \A c \in At("connect", hubs[j], "call") :
                   \E a \in At("connect", hubs[i], "ok") :
                       \E b \in At("initialize", hubs[i], "ok") : a < b /\ b < c
        /\ \A h \in HubIds :
               \A c \in At("initialize", h, "call") :
                   \E a \in At("connect", h, "ok") : a < c
        /\ \A c \in DOMAIN log :
               (log[c].ev = "call" /\ log[c].hub # 0 /\ c < Len(log)) =>
                   /\ log[c + 1].op = log[c].op
                   /\ log[c + 1].hub = log[c].hub
                   /\ log[c + 1].ev \in {"ok", "raise"}

\* C4 witness: initialize() returned after taking two hubs through
\* connect() and initialize().
C4_Witness ==
    /\ Exited("initialize") /\ exit = "returned"
    /\ Len(hubs) = 2
    /\ At("initialize", hubs[2], "ok") # {}

\* C5: whenever finalize() has ended, also after a hub's finalize() or
\* disconnect() raised, disconnect_all() has run in it and the transport
\* holds no open connection.
C5_FinalizeAlwaysDisconnectsAll ==
    Exited("finalize") => At("disconnect_all", 0, "ok") # {} /\ AllClosed

\* C9: whenever start(setup) has ended without a hub coroutine having
\* raised, it has spawned the run-coroutine of every registered hub, after
\* the last hub's initialize() completed, and awaited it before finalize().
C9_StartSpawnsAndAwaitsAll ==
    (Exited("start") /\ \A i \in DOMAIN log : log[i].ev # "raise") =>
        \A h \in HubIds : hub[h].state # "None" =>
            \E r \in At("run", h, "call") :
                /\ \A k \in HubIds : \A a \in At("initialize", k, "ok") : a < r
                /\ \E d \in At("run", h, "ok") :
                       \A f \in At("finalize()", 0, "call") : d < f


\* ------------------------------------------------- attach-phase properties
\* Class c stacks an attachment whose peripheral senses something the class
\* has no callback for.
UnmatchedSense(c) ==
    \E k \in DOMAIN c.stack :
        \E cap \in Capabilities(c.stack[k].peripheral_type) :
            cap.kind = "sense" /\ cap.what \notin c.callbacks

\* Class c stacks an attachment declared without a name.
Nameless(c) == \E k \in DOMAIN c.stack : c.stack[k].kwargs.name = None

\* The step is a call of the decorated class.
Constructed == built' # built /\ built'.result # "none"

\* The attach lines (positions in the class statement) in the order in which
\* their peripherals were handed to attach_sensor.
RECURSIVE AttachOrder(_)
AttachOrder(events) ==
    IF events = <<>> THEN <<>>
    ELSE IF Head(events).call = "attach_sensor"
         THEN <<Head(events).k>> \o AttachOrder(Tail(events))
         ELSE AttachOrder(Tail(events))

Reverse(q) == [i \in 1..Len(q) |-> q[Len(q) + 1 - i]]

C7_SamePortRejected ==
    built.result = "returned" =>
        LET o == hub[built.id]
        IN  /\ \A k \in DOMAIN cls.stack :
                   (\A j \in DOMAIN cls.stack :
                        j # k => cls.stack[j].kwargs.port # cls.stack[k].kwargs.port)
                   => o.port_to_peripheral[cls.stack[k].kwargs.port]
                          = cls.stack[k].kwargs.name
            /\ \A j, k \in DOMAIN cls.stack :
                   j # k => cls.stack[j].kwargs.port # cls.stack[k].kwargs.port

\* C7 as amended: the port mapping holds one peripheral per port, namely the
\* one attached last among those naming the port, which is the topmost
\* attach line naming it; a port no line names stays empty. Attachments on
\* different ports are thus all registered, and two on one port are accepted.
C7_PortMappingLastAttachedWins ==
    built.result = "returned" =>
        LET o == hub[built.id]
            naming(p) == {k \in DOMAIN cls.stack : cls.stack[k].kwargs.port = p}
        IN  \A p \in Ports :
                IF naming(p) = {} THEN o.port_to_peripheral[p] = None
                ELSE o.port_to_peripheral[p] =
                         cls.stack[CHOOSE k \in naming(p) :
                                       \A j \in naming(p) : k <= j].kwargs.name

\* C7 witness: a hub was built from two attachments of different names on
\* the same port.
C7_Witness ==
    /\ built.result = "returned"
    /\ \E j, k \in DOMAIN cls.stack :
           /\ j < k
           /\ cls.stack[j].kwargs.port = cls.stack[k].kwargs.port
           /\ cls.stack[j].kwargs.name # cls.stack[k].kwargs.name
           /\ hub[built.id].port_to_peripheral[cls.stack[j].kwargs.port]
                  = cls.stack[j].kwargs.name

\* C8 as claimed: the peripherals are handed to attach_sensor in the order of
\* the attach lines in the source, top to bottom.
C8_AttachInDeclarationOrder ==
    built.result = "returned" =>
        AttachOrder(built.events) = [k \in 1..Len(cls.stack) |-> k]

\* C8 as amended: the peripherals are handed to attach_sensor in the reverse
\* of the order of the attach lines: the line nearest the class first, the
\* topmost line last; the hub's peripherals are registered in that order.
C8_AttachInReverseDeclarationOrder ==
    built.result = "returned" =>
        /\ AttachOrder(built.events) = Reverse([k \in 1..Len(cls.stack) |-> k])
        /\ hub[built.id].peripherals =
               Reverse([k \in 1..Len(cls.stack) |-> cls.stack[k].kwargs.name])

\* C8 witness: a hub built from two attach lines with different names.
C8_Witness ==
    /\ built.result = "returned"
    /\ Len(cls.stack) >= 2
    /\ cls.stack[1].kwargs.name # cls.stack[2].kwargs.name
    /\ AttachOrder(built.events)[1] = Len(cls.stack)

\* C10 as claimed: a class statement with an attach line that lacks the
\* peripheral type or the name ends with ConfigurationError: it ends with no
\* other exception and defines no class holding a nameless attachment.
C10_MissingOptionFailsAtDeclaration ==
    /\ declared.result \in {"none", "defined", "ConfigurationError"}
    /\ cls.defined => ~Nameless(cls)

\* C10 as amended: a class statement fails exactly when an attach line lacks
\* the peripheral type, and then with TypeError; a line lacking the name is
\* accepted with its options stored as given. Calling such a class raises
\* ConfigurationError before Hub.__init__ runs: no hub is created or
\* registered.
C10_MissingNameFailsAtConstruction ==
    /\ declared.result # "none" =>
           /\ declared.result = "TypeError" <=>
                  \E k \in DOMAIN declared.stack : declared.stack[k].ptype = None
           /\ declared.result = "TypeError" \/ declared.result = "defined"
           /\ declared.result = "defined" =>
                  /\ cls.defined
                  /\ Len(cls.stack) = Len(declared.stack)
                  /\ \A k \in DOMAIN cls.stack :
                         /\ cls.stack[k].peripheral_type = declared.stack[k].ptype
                         /\ cls.stack[k].kwargs.name = declared.stack[k].name
                         /\ cls.stack[k].kwargs.port = declared.stack[k].port
    /\ (built.result # "none" /\ Nameless(cls)) =>
           /\ built.result = "ConfigurationError"
           /\ ~built.registered
           /\ \A i \in DOMAIN built.events : built.events[i].call = "peripheral"

\* C10 witness: a class with a nameless attach line below a named one was
\* defined, and calling it raised ConfigurationError.
C10_Witness ==
    /\ declared.result = "defined"
    /\ Nameless(cls)
    /\ built.result = "ConfigurationError"
    /\ built.events # <<>>


\* ------------------------------------------------ command-channel properties
\* Number of transport writes issued for entry id.
Written(id) == Cardinality({i \in DOMAIN writes : writes[i] = id})

InQueue(id) == \E i \in DOMAIN queue : queue[i] = id

\* C11: the transport writes are issued in the order in which the commands
\* were enqueued, whichever hubs enqueued them (entry ids count enqueues), and
\* at most one write is in flight at any time.
C11_ChannelFifoSingleWriter ==
    /\ \A i, j \in DOMAIN writes : i < j => writes[i] < writes[j]
    /\ Cardinality(inflight) <= 1

\* C11 witness: two hubs each enqueued a command and both were written, the
\* first hub's first.
C11_Witness ==
    /\ Len(writes) = 2
    /\ entries[writes[1]].hub # entries[writes[2]].hub

C13_FinalizeOrder ==
    entry = "finalize" =>
        /\ \A i, j \in DOMAIN hubs : i < j =>
               \A c \in At("finalize", hubs[j], "call") :
                   \E a \in At("finalize", hubs[i], "ok") :
                       \E b \in At("disconnect", hubs[i], "ok") : a < b /\ b < c
        /\ \A h \in HubIds :
               \A c \in At("disconnect", h, "call") :
                   \E a \in At("finalize", h, "ok") : a < c
        /\ \A c \in DOMAIN log :
               (log[c].ev = "call" /\ log[c].hub # 0 /\ c < Len(log)) =>
                   /\ log[c + 1].op = log[c].op
                   /\ log[c + 1].hub = log[c].hub
                   /\ log[c + 1].ev \in {"ok", "raise"}

C13_FinalizeKeepsConnection ==
    (entry = "finalize" /\ pc = "finalize") =>
        \A h \in HubIds : hub'[h].open = hub[h].open

C13_FinalizeSequential ==
    [](C13_FinalizeOrder) /\ [][C13_FinalizeKeepsConnection]_vars

\* C13 witness: finalize() is awaiting the second hub's disconnect() after
\* the first hub's finalize() and disconnect() and the second hub's
\* finalize() completed, and the second hub's connection is still open.
C13_Witness ==
    /\ entry = "finalize" /\ pc = "disconnect" /\ idx = 2
    /\ At("disconnect", hubs[1], "ok") # {}
    /\ At("finalize", hubs[2], "ok") # {}
    /\ hub[hubs[2]].open

\* C14: whenever finalize() has ended, it has called disconnect_all() exactly
\* once, that call is the last thing it did, every hub call and every
\* port-info message came before it, and port-info messages were emitted
\* only for hubs whose query_port_info flag is set.
C14_DisconnectAllOnceAndLast ==
    Exited("finalize") =>
        /\ Cardinality(At("disconnect_all", 0, "call")) = 1
        /\ log[Len(log)] = Ev("disconnect_all", 0, "ok")
        /\ \A d \in At("disconnect_all", 0, "call") :
               \A i \in DOMAIN log :
                   log[i].op \in HubOps \cup {"port_info"} => i < d
        /\ \A h \in HubIds :
               At("port_info", h, "emit") # {} => hub[h].query_port_info

Rank(st) ==
    CASE st = "None" -> 0
      [] st = "Created" -> 1
      [] st = "Connecting" -> 2
      [] st = "Connected" -> 3
      [] st = "Ready" -> 4
      [] st = "Finalizing" -> 5
      [] st = "Disconnecting" -> 6
      [] st = "Disconnected" -> 7

\* The step issues the call op of hub h.
Called(op, h) ==
    /\ log' # log
    /\ log' # <<>>
    /\ log'[Len(log')] = Ev(op, h, "call")

\* C16: in every step, no hub moves to an earlier lifecycle state, a hub's
\* finalize() is called only when the hub is Ready, and a hub's disconnect()
\* is called only on a hub that has been connected.
C16_ForwardOnly ==
    \A h \in HubIds :
        /\ Rank(hub'[h].state) >= Rank(hub[h].state)
        /\ Called("finalize", h) => hub[h].state = "Ready"
        /\ Called("disconnect", h) => hub[h].connected

C16_LifecycleForwardOnly == [][C16_ForwardOnly]_vars


\* ------------------------------------------------ construction properties
\* C17: a call of the decorated class that returns has instantiated the n
\* peripherals of the stack, each with the options saved on its own attach
\* line, before Hub.__init__ ran; it has run Hub.__init__ exactly once, with
\* the arguments the caller passed; and the one hub it returns, the one put
\* in the registry, carries the caller's arguments and all n peripherals.
C17_OneHubAllPeripherals ==
    built.result = "returned" =>
        LET n == Len(cls.stack)
            ev == built.events
            o == hub[built.id]
        IN  /\ Len(ev) = 2 * n + 1
            /\ \A k \in 1..n :
                   ev[k] = [call |-> "peripheral", k |-> k,
                            args |-> cls.stack[k].kwargs]
            /\ ev[n + 1] = [call |-> "Hub", k |-> 0, args |-> built.args]
            /\ \A i \in DOMAIN ev : ev[i].call = "Hub" => i = n + 1
            /\ built.registered /\ hubs[Len(hubs)] = built.id
            /\ o.name = built.args.name
            /\ o.query_port_info = built.args.query_port_info
            /\ Len(o.peripherals) = n
            /\ \A k \in 1..n :
                   \E i \in DOMAIN o.peripherals :
                       o.peripherals[i] = cls.stack[k].kwargs.name

\* C17 witness: a class stacking two attachments with different options was
\* called with query_port_info set and returned its hub.
C17_Witness ==
    /\ built.result = "returned"
    /\ Len(cls.stack) = 2
    /\ cls.stack[1].kwargs # cls.stack[2].kwargs
    /\ built.args.query_port_info
    /\ Len(hub[built.id].peripherals) = 2

\* C18: every hub in the registry carries all the peripherals its class
\* declares; in particular none of the hubs a call of initialize() has
\* connected is missing one.
C18_RegistryFullyWired ==
    \A i \in DOMAIN hubs :
        Len(hub[hubs[i]].peripherals) = Len(cls.stack)

\* C19: a step of initialize(), finalize(), run() or start() leaves the
\* registry as it was, contents and order; and a hub that has been
\* disconnected is still in the registry.
C19_OrchestratorStep == pc' # pc \/ log' # log \/ calls' # calls \/ exit' # exit

C19_RegistryKept ==
    \A h \in HubIds :
        hub[h].state \in {"Disconnecting", "Disconnected"} =>
            \E i \in DOMAIN hubs : hubs[i] = h

C19_RegistryReadOnly ==
    [](C19_RegistryKept) /\ [][C19_OrchestratorStep => hubs' = hubs]_vars

\* C19 witness: finalize() returned over two hubs, the first of which had
\* been connected; both are disconnected and still registered, in order.
C19_Witness ==
    /\ Exited("finalize") /\ exit = "returned"
    /\ hubs = <<1, 2>>
    /\ hub[1].connected
    /\ hub[1].state = "Disconnected" /\ hub[2].state = "Disconnected"

====
